---- MODULE Spec2Model ----
(***************************************************************************)
(* Model of app.py of NBA-True-Percentage: the Monte Carlo win-probability *)
(* estimator simulate_game_win_fast, the per-row loop of                   *)
(* get_processed_player_data, and the reduction of the resulting frame     *)
(* into raw_avg, pressure_avg, clutch_pct and final_chart.                 *)
(*                                                                         *)
(* Representation.                                                         *)
(*   - A Python string is a sequence of one-character strings.             *)
(*   - None is the one-element tuple <<"None">>, distinct from any string. *)
(*   - A float that the program obtains by dividing two integers is the    *)
(*     pair <<numerator, denominator>>; NaN is <<0, 0>>.  Arithmetic on    *)
(*     pairs is exact, so float rounding error is outside the model.       *)
(*   - weight = sqrt(leverage) + 0.05 is kept in hundredths, the square    *)
(*     root rounded down to a whole hundredth.                             *)
(*   - np.random.poisson is a nondeterministic choice of the per-trial     *)
(*     point totals, capped by MaxPts per possession.                      *)
(***************************************************************************)
EXTENDS Integers, Sequences, FiniteSets, TLC

\* ------------------------------------------------------------------ bounds
\* trials argument of simulate_game_win_fast (the program's default is 10000)
Trials == 2
\* largest value one Poisson draw takes in the model
MaxPts == 1
\* largest number of rows the query returns
MaxEvents == 2

\* --------------------------------------------------------------- fractions
NaN == <<0, 0>>

IsNaN(f) == f[2] = 0

Frac(n, d) == <<n, d>>

\* a <= b on floats; every comparison with NaN is False
FLe(a, b) == ~IsNaN(a) /\ ~IsNaN(b) /\ a[1] * b[2] <= b[1] * a[2]

FLt(a, b) == ~IsNaN(a) /\ ~IsNaN(b) /\ a[1] * b[2] < b[1] * a[2]

FEq(a, b) == ~IsNaN(a) /\ ~IsNaN(b) /\ a[1] * b[2] = b[1] * a[2]

Abs(x) == IF x < 0 THEN -x ELSE x

\* abs(a - b)
FAbsDiff(a, b) == Frac(Abs(a[1] * b[2] - b[1] * a[2]), a[2] * b[2])

\* x * 100
Times100(f) == IF IsNaN(f) THEN NaN ELSE Frac(100 * f[1], f[2])

\* ----------------------------------------------------------------- strings
None == <<"None">>

Digits == {"0", "1", "2", "3", "4", "5", "6", "7", "8", "9"}

DigitVal(c) ==
    CASE c = "0" -> 0 [] c = "1" -> 1 [] c = "2" -> 2 [] c = "3" -> 3
      [] c = "4" -> 4 [] c = "5" -> 5 [] c = "6" -> 6 [] c = "7" -> 7
      [] c = "8" -> 8 [] c = "9" -> 9

\* str(v)
Str(v) == IF v = None THEN <<"N", "o", "n", "e">> ELSE v

UpperChar(c) ==
    CASE c = "a" -> "A" [] c = "b" -> "B" [] c = "e" -> "E" [] c = "i" -> "I"
      [] c = "m" -> "M" [] c = "n" -> "N" [] c = "o" -> "O" [] c = "s" -> "S"
      [] c = "t" -> "T" [] c = "x" -> "X"
      [] OTHER -> c

\* s.upper()
Upper(s) == [k \in 1..Len(s) |-> UpperChar(s[k])]

\* sub in s
Contains(sub, s) ==
    \E k \in 0..(Len(s) - Len(sub)) : SubSeq(s, k + 1, k + Len(sub)) = sub

\* the text int() accepts: an optional sign followed by one or more digits
\* (surrounding blanks and '_' between digits do not occur in the rows used)
IsIntText(s) ==
    LET body == IF Len(s) > 0 /\ s[1] \in {"+", "-"} THEN Tail(s) ELSE s
    IN  Len(body) > 0 /\ \A k \in 1..Len(body) : body[k] \in Digits

RECURSIVE DigitsVal(_)
DigitsVal(s) ==
    IF Len(s) = 0 THEN 0
    ELSE 10 * DigitsVal(SubSeq(s, 1, Len(s) - 1)) + DigitVal(s[Len(s)])

\* int(s) for a text int() accepts
IntOf(s) ==
    IF s[1] = "-" THEN -DigitsVal(Tail(s))
    ELSE IF s[1] = "+" THEN DigitsVal(Tail(s))
    ELSE DigitsVal(s)

\* s.split(':')
RECURSIVE Split(_)
Split(s) ==
    IF \A k \in 1..Len(s) : s[k] # ":" THEN <<s>>
    ELSE LET p == CHOOSE k \in 1..Len(s) :
                      s[k] = ":" /\ \A j \in 1..(k - 1) : s[j] # ":"
         IN  <<SubSeq(s, 1, p - 1)>> \o Split(SubSeq(s, p + 1, Len(s)))

\* ------------------------------------------------- simulate_game_win_fast
Max(a, b) == IF a >= b THEN a ELSE b

\* EndResult with the tie test folded into the win test
EndResult_TieWins(margin) ==
    IF margin >= 0 THEN Frac(1, 1) ELSE Frac(0, 1)

\* the branch taken when seconds_left <= 0
EndResult(margin) ==
    IF margin > 0 THEN Frac(1, 1)
    ELSE IF margin = 0 THEN Frac(1, 2)
    ELSE Frac(0, 1)

\* max(1, int(seconds_left / 13)), evaluated for seconds_left > 0
Possessions(seconds_left) == Max(1, seconds_left \div 13)

\* the values np.random.poisson(1.08, (trials, possessions)).sum(axis=1) can
\* take: one total per trial, each the sum of `possessions` draws
PoissonSums(trials, possessions) == [1..trials -> 0..(possessions * MaxPts)]

\* what the random source can hand one call
Draws(seconds_left) ==
    IF seconds_left <= 0 THEN {<<>>}
    ELSE PoissonSums(Trials, Possessions(seconds_left))

\* IsWin with >= in place of >
IsWin_TieCounts(differential) == differential >= 0

\* IsWin with the comparison reversed
IsWin_Reversed(differential) == differential < 0

\* (margin + team_a_pts - team_b_pts) > 0, for one trial
IsWin(differential) == differential > 0

\* np.mean((margin + team_a_pts - team_b_pts) > 0)
WinMean(margin, team_a_pts, team_b_pts) ==
    Frac(Cardinality({k \in 1..Trials :
                        IsWin(margin + team_a_pts[k] - team_b_pts[k])}),
         Trials)

simulate_game_win_fast(margin, seconds_left, team_a_pts, team_b_pts) ==
    IF seconds_left <= 0 THEN EndResult(margin)
    ELSE WinMean(margin, team_a_pts, team_b_pts)

\* every value one call can return, over all the random source can draw
Estimates(margin, seconds_left) ==
    { simulate_game_win_fast(margin, seconds_left, a, b) :
        a \in Draws(seconds_left), b \in Draws(seconds_left) }

\* --------------------------------------------- get_processed_player_data
\* margin = 0 if any(x in m_str for x in ['TIE','NONE','NAN']) else int(m_str)
ParseMargin(scoremargin) ==
    LET m_str == Upper(Str(scoremargin))
    IN  IF \E x \in {<<"T", "I", "E">>, <<"N", "O", "N", "E">>,
                     <<"N", "A", "N">>} : Contains(x, m_str)
        THEN [ok |-> TRUE, val |-> 0]
        ELSE IF IsIntText(m_str) THEN [ok |-> TRUE, val |-> IntOf(m_str)]
        ELSE [ok |-> FALSE, val |-> 0]

\* TotalSec reading the seconds from the last part, t_parts[-1]
TotalSec_LastPart(t_parts) ==
    IntOf(t_parts[1]) * 60 + IntOf(t_parts[Len(t_parts)])

\* int(t_parts[0]) * 60 + int(t_parts[1])
TotalSec(t_parts) == IntOf(t_parts[1]) * 60 + IntOf(t_parts[2])

\* t_parts = row['pctimestring'].split(':'); total_sec = ...
ParseTime(pctimestring) ==
    IF pctimestring = None THEN [ok |-> FALSE, val |-> 0]
    ELSE LET t_parts == Split(pctimestring)
         IN  IF /\ IsIntText(t_parts[1])
                /\ Len(t_parts) >= 2
                /\ IsIntText(t_parts[2])
             THEN [ok |-> TRUE, val |-> TotalSec(t_parts)]
             ELSE [ok |-> FALSE, val |-> 0]

\* is_make = 0 if "MISS" in (str(home) + str(visitor)).upper() else 1
IsMake(homedescription, visitordescription) ==
    IF Contains(<<"M", "I", "S", "S">>,
                Upper(Str(homedescription) \o Str(visitordescription)))
    THEN 0 ELSE 1

\* the largest r in lo..(hi - 1) with r * r * f[2] <= 10000 * f[1]
RECURSIVE SqrtBetween(_, _, _)
SqrtBetween(lo, hi, f) ==
    IF hi - lo <= 1 THEN lo
    ELSE LET mid == (lo + hi) \div 2
         IN  IF mid * mid * f[2] <= 10000 * f[1]
             THEN SqrtBetween(mid, hi, f)
             ELSE SqrtBetween(lo, mid, f)

\* floor(100 * sqrt(f)) for 0 <= f <= 1
SqrtHundredths(f) == SqrtBetween(0, 101, f)

\* np.sqrt(leverage) + 0.05, in hundredths
Weight(leverage) == SqrtHundredths(leverage) + 5

\* lines 115-116: the dict appended for a row that parsed
ShotRecord(row, wp_make, wp_miss) ==
    LET is_make == IsMake(row.homedescription, row.visitordescription)
        leverage == FAbsDiff(wp_make, wp_miss)
    IN  [is_make |-> is_make, weight |-> Weight(leverage),
         leverage |-> leverage, period |-> row.period]

\* OnException dropping what the loop had collected
OnException_Abort(results) == <<>>

\* except: continue
OnException(results) == results

\* ------------------------------------------------------------- reduction
RECURSIVE SumSeq(_)
SumSeq(xs) == IF Len(xs) = 0 THEN 0 ELSE Head(xs) + SumSeq(Tail(xs))

\* Series.mean(); NaN for an empty series
Mean(xs) == IF Len(xs) = 0 THEN NaN ELSE Frac(SumSeq(xs), Len(xs))

Column(frame, name) == [k \in 1..Len(frame) |-> frame[k][name]]

\* HasData without the test for an empty frame
HasData_NotNone(frame) == frame.kind = "DataFrame"

\* res_df is not None and not res_df.empty
HasData(frame) == frame.kind = "DataFrame" /\ Len(frame.rows) > 0

\* res_df['is_make'].mean() * 100
RawAvg(rows) == Times100(Mean(Column(rows, "is_make")))

\* PressureAvg dividing by the number of shots, not by the total weight
PressureAvg_ByCount(rows) ==
    Times100(Frac(SumSeq([k \in 1..Len(rows) |->
                            rows[k].is_make * rows[k].weight]),
                  100 * Len(rows)))

\* (res_df['is_make'] * res_df['weight']).sum() / res_df['weight'].sum() * 100
PressureAvg(rows) ==
    Times100(Frac(SumSeq([k \in 1..Len(rows) |->
                            rows[k].is_make * rows[k].weight]),
                  SumSeq(Column(rows, "weight"))))

\* leverage > 0.15
IsClutch(r) == FLt(Frac(15, 100), r.leverage)

\* res_df[res_df['leverage'] > 0.15]['is_make'].mean() * 100
ClutchPct(rows) ==
    Times100(Mean(Column(SelectSeq(rows, IsClutch), "is_make")))

\* str(int(x)) for a one-digit x
IntStr(x) == CHOOSE d \in Digits : DigitVal(d) = x

\* Quarter with <= in place of <
Quarter_Le4(x) == IF x <= 4 THEN IntStr(x) ELSE "4+"

\* lambda x: str(int(x)) if x < 4 else "4+"
Quarter(x) == IF x < 4 THEN IntStr(x) ELSE "4+"

\* GroupKeys reindexed to the four labels of the chart's sort order
GroupKeys_AllLabels(rows) == {"1", "2", "3", "4+"}

\* the groups of chart_data.groupby('Quarter')
GroupKeys(rows) == {Quarter(rows[k].period) : k \in 1..Len(rows)}

\* chart_data.groupby('Quarter')['is_make'].mean()
FinalChart(rows) ==
    [q \in GroupKeys(rows) |->
        LET InGroup(r) == Quarter(r.period) = q
        IN  Mean(Column(SelectSeq(rows, InGroup), "is_make"))]

\* the integer nearest to n / d, ties to the even one
RoundHalfEven(n, d) ==
    LET q == n \div d
        r == n % d
    IN  IF 2 * r < d THEN q
        ELSE IF 2 * r > d THEN q + 1
        ELSE IF q % 2 = 0 THEN q ELSE q + 1

\* (x * 100).round(1) for the mean x; NaN stays NaN
Round1(f) ==
    IF IsNaN(f) THEN NaN ELSE Frac(RoundHalfEven(1000 * f[1], f[2]), 10)

\* final_chart['Make %']
MakePct(chart) == [q \in DOMAIN chart |-> Round1(chart[q])]

\* ------------------------------------------------------------------ state
VARIABLES
    pc,              \* position in the script: "query", "loop", "render", "done"
    selected_player, \* whether the sidebar selectbox holds a player
    df,              \* the rows pd.read_sql returned
    i,               \* index of the row df.iterrows() hands out next
    results,         \* the list the loop appends to
    margin,          \* loop local: <<>> while unbound, else <<value>>
    total_sec,       \* loop local: <<>> while unbound, else <<value>>
    res_df,          \* [kind, rows]: kind is "unbound", "None" or "DataFrame"
    shown,           \* what the page shows: "nothing", "metrics", "warning", "info"
    raw_avg,         \* <<>> until computed
    pressure_avg,    \* <<>> until computed
    clutch_pct,      \* <<>> until computed
    final_chart,     \* <<>> until computed, else Quarter -> mean of is_make
    make_pct,        \* <<>> until computed, else Quarter -> 'Make %'
    calls            \* <<>>, or the latest direct call of simulate_game_win_fast

vars == <<pc, selected_player, df, i, results, margin, total_sec, res_df,
          shown, raw_avg, pressure_avg, clutch_pct, final_chart, make_pct,
          calls>>

outputs == <<shown, raw_avg, pressure_avg, clutch_pct, final_chart, make_pct>>

\* ----------------------------------------------------------------- inputs
MissText == <<"M", "I", "S", "S">>

MakeText == <<"F", "T">>

Row(period, scoremargin, pctimestring, home, visitor) ==
    [period |-> period, scoremargin |-> scoremargin,
     pctimestring |-> pctimestring,
     homedescription |-> home, visitordescription |-> visitor]

\* rows that parse with the clock at 0:00, where nothing is drawn
BuzzerRows ==
    { Row(p, m, <<"0", ":", "0", "0">>, d[1], d[2]) :
        p \in {1, 4, 5},
        m \in { <<"T", "I", "E">>, <<"-", "2">> },
        d \in { <<MissText, None>>, <<None, MakeText>> } }

\* rows that parse with time left to play
LiveRows ==
    { Row(4, <<"1">>, <<"0", ":", "1", "3">>, d[1], d[2]) :
        d \in { <<MissText, None>>, <<None, MakeText>> } }

\* rows with a missing or unusual margin or time
OddRows ==
    { Row(3, <<"x">>, <<"0", ":", "0", "0">>, MakeText, None),
      Row(3, None, <<"0", ":", "0", "0">>, MakeText, None),
      Row(3, <<"1">>, None, MakeText, None),
      Row(3, <<"1">>, <<"9", "0">>, MakeText, None),
      Row(3, <<"1">>, <<"a", ":", "3", "0">>, MakeText, None),
      Row(3, <<"1">>, <<"1", ":", "b">>, MakeText, None),
      Row(3, <<"1">>, <<"0", ":", "0", "5", ":", "4", "5">>, MakeText, None) }

Rows == BuzzerRows \cup LiveRows \cup OddRows

RECURSIVE SeqsUpTo(_, _)
SeqsUpTo(S, n) ==
    IF n = 0 THEN {<<>>}
    ELSE LET shorter == SeqsUpTo(S, n - 1)
         IN  shorter \cup {Append(q, x) : q \in shorter, x \in S}

EstMargins == {-2, -1, 0, 1, 2}

EstSeconds == {-60, -13, -1, 0, 5}

\* -------------------------------------------------------------------- Init
Init ==
    /\ pc = "query"
    /\ selected_player \in BOOLEAN
    /\ df \in (IF selected_player THEN SeqsUpTo(Rows, MaxEvents) ELSE {<<>>})
    /\ i = 1
    /\ results = <<>>
    /\ margin = <<>>
    /\ total_sec = <<>>
    /\ res_df = [kind |-> "unbound", rows |-> <<>>]
    /\ shown = "nothing"
    /\ raw_avg = <<>>
    /\ pressure_avg = <<>>
    /\ clutch_pct = <<>>
    /\ final_chart = <<>>
    /\ make_pct = <<>>
    /\ calls = <<>>

\* ----------------------------------------------------------------- actions
\* lines 134, 163-164: no player selected
Info ==
    /\ pc = "query"
    /\ ~selected_player
    /\ shown' = "info"
    /\ pc' = "done"
    /\ UNCHANGED <<selected_player, df, i, results, margin, total_sec, res_df,
                   raw_avg, pressure_avg, clutch_pct, final_chart, make_pct,
                   calls>>

\* lines 102-105: the query; an empty frame returns None at once
Query ==
    /\ pc = "query"
    /\ selected_player
    /\ IF Len(df) = 0
       THEN /\ res_df' = [kind |-> "None", rows |-> <<>>]
            /\ pc' = "render"
       ELSE /\ res_df' = res_df
            /\ pc' = "loop"
    /\ results' = <<>>
    /\ i' = 1
    /\ UNCHANGED <<selected_player, df, margin, total_sec, outputs, calls>>

\* lines 106-117: one iteration of the loop over df.iterrows()
ProcessRow ==
    /\ pc = "loop"
    /\ i <= Len(df)
    /\ LET row == df[i]
           pm == ParseMargin(row.scoremargin)
           pt == ParseTime(row.pctimestring)
       IN  IF ~pm.ok
           THEN /\ results' = OnException(results)
                /\ UNCHANGED <<margin, total_sec>>
           ELSE IF ~pt.ok
           THEN /\ results' = OnException(results)
                /\ margin' = <<pm.val>>
                /\ UNCHANGED total_sec
           ELSE /\ margin' = <<pm.val>>
                /\ total_sec' = <<pt.val>>
                /\ \E wp_make \in Estimates(pm.val + 1, pt.val),
                      wp_miss \in Estimates(pm.val, pt.val) :
                       results' = Append(results,
                           ShotRecord(row, wp_make, wp_miss))
    /\ i' = i + 1
    /\ UNCHANGED <<pc, selected_player, df, res_df, outputs, calls>>

\* line 118: return pd.DataFrame(results)
Return ==
    /\ pc = "loop"
    /\ i > Len(df)
    /\ res_df' = [kind |-> "DataFrame", rows |-> results]
    /\ pc' = "render"
    /\ UNCHANGED <<selected_player, df, i, results, margin, total_sec,
                   outputs, calls>>

\* lines 138-160: the three metrics and the per-quarter chart
RenderMetrics ==
    /\ pc = "render"
    /\ HasData(res_df)
    /\ raw_avg' = RawAvg(res_df.rows)
    /\ pressure_avg' = PressureAvg(res_df.rows)
    /\ clutch_pct' = ClutchPct(res_df.rows)
    /\ final_chart' = FinalChart(res_df.rows)
    /\ make_pct' = MakePct(FinalChart(res_df.rows))
    /\ shown' = "metrics"
    /\ pc' = "done"
    /\ UNCHANGED <<selected_player, df, i, results, margin, total_sec, res_df,
                   calls>>

\* lines 161-162: st.warning("No free throw data found ...")
RenderWarning ==
    /\ pc = "render"
    /\ ~HasData(res_df)
    /\ shown' = "warning"
    /\ pc' = "done"
    /\ UNCHANGED <<selected_player, df, i, results, margin, total_sec, res_df,
                   raw_avg, pressure_avg, clutch_pct, final_chart, make_pct,
                   calls>>

Next ==
    \/ Info
    \/ Query
    \/ ProcessRow
    \/ Return
    \/ RenderMetrics
    \/ RenderWarning

Spec == Init /\ [][Next]_vars

\* ------------------------------------- the estimator called on its own
InitEst ==
    /\ pc = "done"
    /\ selected_player = FALSE
    /\ df = <<>>
    /\ i = 1
    /\ results = <<>>
    /\ margin = <<>>
    /\ total_sec = <<>>
    /\ res_df = [kind |-> "unbound", rows |-> <<>>]
    /\ shown = "nothing"
    /\ raw_avg = <<>>
    /\ pressure_avg = <<>>
    /\ clutch_pct = <<>>
    /\ final_chart = <<>>
    /\ make_pct = <<>>
    /\ calls = <<>>

CallRecord(m, t, a, b) ==
    [margin |-> m, seconds_left |-> t, team_a_pts |-> a, team_b_pts |-> b,
     ret |-> simulate_game_win_fast(m, t, a, b)]

\* lines 85-91: one call, with any arguments and any draws
Simulate ==
    /\ \E m \in EstMargins, t \in EstSeconds :
         \E a \in Draws(t), b \in Draws(t) :
            calls' = <<CallRecord(m, t, a, b)>>
    /\ UNCHANGED <<pc, selected_player, df, i, results, margin, total_sec,
                   res_df, outputs>>

NextEst == Simulate

SpecEst == InitEst /\ [][NextEst]_vars

\* ======================================================= claims, SpecEst
\* C1: a call with seconds_left <= 0 draws nothing and returns exactly 1.0
\* for margin > 0, exactly 0.5 for margin = 0 and exactly 0.0 for margin < 0.
C1_BuzzerResult ==
    \A k \in 1..Len(calls) :
        calls[k].seconds_left <= 0 =>
            /\ calls[k].team_a_pts = <<>>
            /\ calls[k].team_b_pts = <<>>
            /\ calls[k].margin > 0 => calls[k].ret = <<1, 1>>
            /\ calls[k].margin = 0 => calls[k].ret = <<1, 2>>
            /\ calls[k].margin < 0 => calls[k].ret = <<0, 1>>

C1_Witness ==
    /\ Len(calls) = 1
    /\ calls[1].seconds_left < 0 /\ calls[1].margin = 0
    /\ calls[1].ret = <<1, 2>>

\* C2: a call with seconds_left > 0 returns (number of trials whose
\* differential margin + team_a - team_b is strictly positive) / trials, a
\* trial with differential 0 not being counted, so the result is in [0, 1].
C2_WinFraction ==
    \A k \in 1..Len(calls) :
        LET c == calls[k]
            Diff(j) == c.margin + c.team_a_pts[j] - c.team_b_pts[j]
            wins == SumSeq([j \in 1..Trials |-> IF Diff(j) >= 1 THEN 1 ELSE 0])
        IN  c.seconds_left > 0 =>
                /\ c.ret = <<wins, Trials>>
                /\ 0 <= c.ret[1] /\ c.ret[1] <= c.ret[2]

C2_Witness ==
    \E k \in 1..Len(calls) :
        LET c == calls[k]
        IN  /\ c.seconds_left > 0
            /\ \E j \in 1..Trials :
                   c.margin + c.team_a_pts[j] - c.team_b_pts[j] = 0
            /\ \E j \in 1..Trials :
                   c.margin + c.team_a_pts[j] - c.team_b_pts[j] > 0
            /\ c.ret[1] > 0 /\ c.ret[1] < Trials

\* C9 as stated: of two calls with the same seconds_left, the one with the
\* larger margin never returns the smaller value.
C9_MonotoneAnyDraws ==
    [][ (/\ Len(calls) = 1
         /\ calls[1].seconds_left = calls'[1].seconds_left
         /\ calls[1].margin <= calls'[1].margin)
        => FLe(calls[1].ret, calls'[1].ret) ]_vars

\* C9 amended: with seconds_left and the drawn point totals held fixed
\* (every seconds_left <= 0 included, where nothing is drawn), a larger
\* margin never gives a smaller value than the call returned.
C9_MonotoneSameDraws ==
    \A k \in 1..Len(calls) :
        \A m \in EstMargins :
            m >= calls[k].margin =>
                FLe(calls[k].ret,
                    simulate_game_win_fast(m, calls[k].seconds_left,
                        calls[k].team_a_pts, calls[k].team_b_pts))

C9_Witness ==
    /\ Len(calls) = 1
    /\ calls[1].seconds_left > 0
    /\ calls[1].margin = 0
    /\ FLt(calls[1].ret,
           simulate_game_win_fast(1, calls[1].seconds_left,
               calls[1].team_a_pts, calls[1].team_b_pts))
    /\ FLt(Frac(0, 1), calls[1].ret)

\* ========================================================== claims, Spec
\* C3: when shots were parsed and none has leverage > 0.15, the reported
\* clutch percentage is 0.
C3_EmptyClutchIsZero ==
    (/\ shown = "metrics"
     /\ \A k \in 1..Len(res_df.rows) :
            res_df.rows[k].leverage[1] * 100 <= 15 * res_df.rows[k].leverage[2])
    => FEq(clutch_pct, Frac(0, 1))

\* C4 as stated: the breakdown has an entry for each of "1", "2", "3" and
\* "4+", a label no shot falls under being present with make rate 0.
C4_AllBucketsPresent ==
    shown = "metrics" =>
        \A q \in {"1", "2", "3", "4+"} :
            /\ q \in DOMAIN final_chart
            /\ (\A k \in 1..Len(res_df.rows) :
                   q # (CASE res_df.rows[k].period = 1 -> "1"
                          [] res_df.rows[k].period = 2 -> "2"
                          [] res_df.rows[k].period = 3 -> "3"
                          [] OTHER -> "4+"))
               => FEq(final_chart[q], Frac(0, 1))

\* C4 amended: the breakdown has an entry for a label exactly when at least
\* one parsed shot falls under it; a label no shot falls under is omitted.
C4_OnlyOccupiedBuckets ==
    shown = "metrics" =>
        \A q \in {"1", "2", "3", "4+"} :
            q \in DOMAIN final_chart <=>
                \E k \in 1..Len(res_df.rows) :
                    q = (CASE res_df.rows[k].period = 1 -> "1"
                           [] res_df.rows[k].period = 2 -> "2"
                           [] res_df.rows[k].period = 3 -> "3"
                           [] OTHER -> "4+")

C4_Witness ==
    /\ shown = "metrics"
    /\ Len(res_df.rows) = 2
    /\ DOMAIN final_chart = {"1", "4+"}

\* C5: every parsed shot is counted in exactly one bucket, period p < 4 in
\* the bucket labelled p and every period >= 4 in "4+", and each bucket's
\* value is the mean of is_make over the shots in it.
C5_BucketMeans ==
    shown = "metrics" =>
        LET shots == res_df.rows
            In(q, k) == IF shots[k].period >= 4 THEN q = "4+"
                        ELSE /\ q \in Digits
                             /\ DigitVal(q) = shots[k].period
            Count(q) == SumSeq([k \in 1..Len(shots) |->
                                  IF In(q, k) THEN 1 ELSE 0])
            Makes(q) == SumSeq([k \in 1..Len(shots) |->
                                  IF In(q, k) THEN shots[k].is_make ELSE 0])
        IN  /\ \A k \in 1..Len(shots) :
                  Cardinality({q \in DOMAIN final_chart : In(q, k)}) = 1
            /\ \A q \in DOMAIN final_chart :
                  /\ Count(q) > 0
                  /\ FEq(final_chart[q], Frac(Makes(q), Count(q)))
                  /\ final_chart[q][2] = Count(q)

C5_Witness ==
    /\ shown = "metrics"
    /\ Len(res_df.rows) = 2
    /\ res_df.rows[1].period = 4 /\ res_df.rows[1].is_make = 0
    /\ res_df.rows[2].period = 5 /\ res_df.rows[2].is_make = 1
    /\ DOMAIN final_chart = {"4+"}
    /\ final_chart["4+"] = <<1, 2>>

\* C6: when the query returns no row, or every row fails parsing, the run
\* ends with the "no data" warning and none of the three percentages or
\* the breakdown is computed.
C6_NoData ==
    (/\ pc = "done"
     /\ selected_player
     /\ \A k \in 1..Len(df) :
            \/ ~ParseMargin(df[k].scoremargin).ok
            \/ ~ParseTime(df[k].pctimestring).ok)
    => /\ shown = "warning"
       /\ raw_avg = <<>>
       /\ pressure_avg = <<>>
       /\ clutch_pct = <<>>
       /\ final_chart = <<>>
       /\ make_pct = <<>>

C6_Witness ==
    /\ pc = "done"
    /\ Len(df) = 2
    /\ ~ParseMargin(df[1].scoremargin).ok
    /\ ~ParseTime(df[2].pctimestring).ok
    /\ res_df.kind = "DataFrame"
    /\ shown = "warning"

\* C7: every step of the loop leaves the records collected so far as they
\* were, and when the loop ends the accumulator holds exactly one record
\* with the four fields is_make, weight, leverage, period for each row whose
\* margin and time parsed, in input order, and nothing for the other rows.
C7_ErrorIsolation ==
    [][ /\ Len(results') >= Len(results)
        /\ SubSeq(results', 1, Len(results)) = results
        /\ (pc = "loop" /\ pc' = "render") =>
             LET Parses(r) == /\ ParseMargin(r.scoremargin).ok
                              /\ ParseTime(r.pctimestring).ok
                 parsed == SelectSeq(df, Parses)
                 kept == res_df'.rows
             IN  /\ Len(kept) = Len(parsed)
                 /\ \A k \in 1..Len(parsed) :
                       /\ DOMAIN kept[k] =
                              {"is_make", "weight", "leverage", "period"}
                       /\ kept[k].period = parsed[k].period
                       /\ kept[k].is_make =
                              IsMake(parsed[k].homedescription,
                                     parsed[k].visitordescription)
                       /\ kept[k].leverage[2] > 0
                       /\ kept[k].weight >= 5 ]_vars

C7_Witness ==
    /\ pc = "render"
    /\ Len(df) = 2
    /\ ~ParseTime(df[1].pctimestring).ok
    /\ ParseMargin(df[2].scoremargin).ok
    /\ ParseTime(df[2].pctimestring).ok
    /\ Len(res_df.rows) = 1
    /\ res_df.rows[1].period = df[2].period

\* C8 as stated: a row whose time string is not exactly two integers joined
\* by one ':' contributes no record.
C8_MalformedTimeSkipped ==
    [][ (/\ pc = "loop"
         /\ i <= Len(df)
         /\ df[i].pctimestring # None
         /\ LET t_parts == Split(df[i].pctimestring)
            IN  ~(/\ Len(t_parts) = 2
                  /\ IsIntText(t_parts[1])
                  /\ IsIntText(t_parts[2])))
        => results' = results ]_vars

\* C8 amended: a row whose time string has no ':' or whose first or second
\* ':'-separated part is not an integer contributes no record; a row whose
\* first two parts are integers, whatever follows them, yields
\* total_sec = first * 60 + second and, its margin parsing, one record.
C8_FirstTwoPartsDecide ==
    [][ (/\ pc = "loop"
         /\ i <= Len(df)
         /\ df[i].pctimestring # None)
        => LET t_parts == Split(df[i].pctimestring)
               wellFormed == /\ Len(t_parts) >= 2
                             /\ IsIntText(t_parts[1])
                             /\ IsIntText(t_parts[2])
           IN  /\ ~wellFormed => results' = results /\ total_sec' = total_sec
               /\ (wellFormed /\ ParseMargin(df[i].scoremargin).ok) =>
                     /\ Len(results') = Len(results) + 1
                     /\ total_sec' = <<IntOf(t_parts[1]) * 60
                                         + IntOf(t_parts[2])>> ]_vars

C8_Witness ==
    /\ pc = "loop"
    /\ Len(df) = 2
    /\ i = 3
    /\ df[1].pctimestring = <<"9", "0">>
    /\ df[2].pctimestring = <<"0", ":", "0", "5", ":", "4", "5">>
    /\ total_sec = <<5>>
    /\ Len(results) = 1

====
